---------------------------- MODULE Spec2Model ----------------------------
(***************************************************************************)
(* A model of the curl-mt4 shim: the flat, C-callable wrapper around the   *)
(* libcurl easy interface.  Two variants are modelled side by side:        *)
(*   - the full variant   (curl-mt4.cpp, kept as src/unnamed/part_000),    *)
(*   - the minimal variant (src/mt4curl/mt4curl.cpp), definitions Min*.    *)
(* Strings are sequences of character codes (a C string is the sequence    *)
(* before its terminating NUL); a std::stringstream is the pair of its     *)
(* bytes and its get position; the engine's option store is a function     *)
(* from option names to the value last set.                                *)
(* The engine (libcurl) is the environment: what curl_easy_perform returns *)
(* and what it hands to the callbacks are inputs of CurlExecute.  Memory   *)
(* exhaustion inside the engine or operator new is not modelled.           *)
(***************************************************************************)
EXTENDS Integers, Sequences, FiniteSets, TLC

---------------------------------------------------------------------------
(* Bounds of the model.                                                    *)
MaxHeaders == 3      \* staged header lines kept per handle
MaxList    == 4      \* entries of the engine's header list (curl_slist)
MaxData    == 3      \* bytes accumulated in m_data
MaxResp    == 2      \* captured response header lines
MaxDebug   == 48     \* bytes accumulated in m_debug
MaxBuf     == 3      \* largest caller buffer passed to an accessor
NThreads   == 3      \* threads that call CurlInit concurrently

---------------------------------------------------------------------------
(* Program constants.                                                      *)
CURLE_OK               == 0
ERR_NULL_HANDLE        == -1     \* "return -1" of the full variant
ERR_NO_POST_DATA       == -2     \* "return -2" of CurlExecute
MIN_FALSE              == 0      \* "return false" of the minimal variant
CONNECT_TIMEOUT        == 7
LF    == 10
CR    == 13
COLON == 58

NULL   == "NULL"                 \* a null pointer argument
PTR    == "PTR"                  \* the handle CurlInit returned
Unset  == "unset"                \* an engine option never set

S_Expect          == <<69,120,112,101,99,116,58>>
S_ContentType     == <<67,111,110,116,101,110,116,45,84,121,112,101,58>>
S_ContentTypeJson == <<67,111,110,116,101,110,116,45,84,121,112,101,58,32,97,112,112,108,105,99,97,116,105,111,110,47,106,115,111,110>>
S_ContentTypeForm == <<67,111,110,116,101,110,116,45,84,121,112,101,58,32,97,112,112,108,105,99,97,116,105,111,110,47,120,45,119,119,119,45,102,111,114,109,45,117,114,108,101,110,99,111,100,101,100>>
S_TraceInfo       == <<61,32,73,110,102,111,46,46,46,46,46,46,46,46,46,58,32>>
S_TraceHeaderOut  == <<62,32,83,101,110,100,32,104,101,97,100,101,114,46,46,58,32,40>>
S_TraceDataOut    == <<62,32,83,101,110,100,32,100,97,116,97,46,46,46,46,58,32,40>>
S_TraceSslOut     == <<62,32,83,101,110,100,32,83,83,76,32,100,97,116,97,58,32,40>>
S_TraceHeaderIn   == <<60,32,82,101,99,118,32,104,101,97,100,101,114,46,46,58,32,40>>
S_TraceDataIn     == <<60,32,82,101,99,118,32,100,97,116,97,46,46,46,46,58,32,40>>
S_TraceSslIn      == <<60,32,82,101,99,118,32,83,83,76,32,100,97,116,97,58,32,40>>
S_BytesNl         == <<32,98,121,116,101,115,41,10>>

Methods  == {"GET", "POST", "POST_JSON", "POST_FORM", "DEL", "PUT"}
OptFlags == {"OPT_FOLLOW_REDIRECTS", "OPT_DEBUG", "CURL_OPT_NOBODY"}

OptNames == {"ERRORBUFFER", "URL", "TIMEOUT", "NOPROGRESS", "FOLLOWLOCATION",
             "NOBODY", "DEBUGFUNCTION", "DEBUGDATA", "POST", "POSTFIELDS",
             "POSTFIELDSIZE", "CUSTOMREQUEST", "PUT", "HTTPHEADER", "VERBOSE",
             "WRITEFUNCTION", "WRITEDATA", "HEADERFUNCTION", "HEADERDATA",
             "CONNECTTIMEOUT", "TCP_KEEPALIVE"}

---------------------------------------------------------------------------
(* Sequence helpers.                                                       *)
Min2(a, b) == IF a < b THEN a ELSE b
Max2(a, b) == IF a > b THEN a ELSE b
Take(s, n) == SubSeq(s, 1, Min2(Max2(n, 0), Len(s)))
Drop(s, n) == SubSeq(s, Min2(Max2(n, 0), Len(s)) + 1, Len(s))
IsPrefix(p, s) == Len(p) <= Len(s) /\ SubSeq(s, 1, Len(p)) = p
\* a caller buffer of n bytes before a call: every byte holds 255
Filled(n)  == [i \in 1..Max2(n, 0) |-> 255]
SeqsUpTo(S, n) == UNION {[1..k -> S] : k \in 0..n}

RECURSIVE Concat(_)
Concat(ss) == IF ss = <<>> THEN <<>> ELSE Head(ss) \o Concat(Tail(ss))

RECURSIVE NonEmpty(_)
NonEmpty(ss) ==
    IF ss = <<>> THEN <<>>
    ELSE (IF Head(ss) = <<>> THEN <<>> ELSE <<Head(ss)>>) \o NonEmpty(Tail(ss))

\* snprintf("%d") of a small non-negative number
Digits(n) == IF n < 10 THEN <<48 + n>> ELSE <<48 + (n \div 10), 48 + (n % 10)>>

---------------------------------------------------------------------------
(* Pure helpers of the source.                                             *)

\* index of the first c in str, Len(str)+1 when there is none
RECURSIVE ScanTo(_, _, _)
ScanTo(str, c, i) ==
    IF i > Len(str) \/ str[i] = c THEN i ELSE ScanTo(str, c, i + 1)

\* split() as a while loop would do it: the piece after the last delimiter
\* (and the only piece of a string without one) is pushed only if non-empty
RECURSIVE split_while(_, _)
split_while(str, c) ==
    LET n == ScanTo(str, c, 1)
    IN  IF n > Len(str) THEN (IF str = <<>> THEN <<>> ELSE <<str>>)
        ELSE <<SubSeq(str, 1, n - 1)>> \o split_while(SubSeq(str, n + 1, Len(str)), c)

\* split(): the do/while pushes one piece per delimiter and one for the rest
RECURSIVE split(_, _)
split(str, c) ==
    LET n == ScanTo(str, c, 1)
    IN  IF n > Len(str) THEN <<str>>
        ELSE <<SubSeq(str, 1, n - 1)>> \o split(SubSeq(str, n + 1, Len(str)), c)

\* ::DataSize(): tellg, seek to the end, tellg, seek back: the byte count
DataSize(bytes) == Len(bytes)

\* WriteData() reading with sgetn replaced by a read that leaves the get
\* position where it was
WriteData_peek(bytes, g, sz) ==
    LET m == Min2(Len(bytes) - g, sz)
    IN  [ret |-> m, out |-> SubSeq(bytes, g + 1, g + Max2(m, 0)), g |-> g]

\* CurlState::WriteData(buf, sz): m = min(in_avail, sz); sgetn copies m
\* bytes (none when m <= 0) and moves the get position; m is returned
WriteData(bytes, g, sz) ==
    LET n == Len(bytes) - g
        m == Min2(n, sz)
        k == Max2(m, 0)
    IN  [ret |-> m,
         out |-> SubSeq(bytes, g + 1, g + k),
         g   |-> g + k]

\* CurlState::DebugInfo(buf, sz): n = min<int>(DebugInfoSize(), sz-1);
\* sgetn copies at most n of the bytes not yet read; n is returned
DebugInfo(bytes, g, sz) ==
    LET n == Min2(DataSize(bytes), sz - 1)
        k == Min2(Max2(n, 0), Len(bytes) - g)
    IN  [ret |-> n,
         out |-> SubSeq(bytes, g + 1, g + k),
         g   |-> g + k]

\* the caller's buffer of sz bytes after `out` was copied to its start
BufAfter(sz, out) == out \o Drop(Filled(sz), Len(out))

\* strncpy_s(buf, buflen, h, Len(h)) for Len(h) < buflen: h and a NUL
StrncpyS(buflen, h) == h \o <<0>> \o Drop(Filled(buflen), Len(h) + 1)

\* RTrim() stopping after one character
RTrim_once(val) ==
    IF val # <<>> /\ val[Len(val)] \in {CR, LF}
    THEN SubSeq(val, 1, Len(val) - 1) ELSE val

\* read_header(): lines holding ':' are kept without their trailing CR/LF
RECURSIVE RTrim(_)
RTrim(val) ==
    IF val # <<>> /\ val[Len(val)] \in {CR, LF}
    THEN RTrim(SubSeq(val, 1, Len(val) - 1)) ELSE val

read_header(resp, val) ==
    LET ok == ScanTo(val, COLON, 1)
        n  == Len(RTrim(val))
    IN  [ret  |-> Len(val),
         resp |-> IF ok <= Len(val) /\ n # 0
                  THEN Append(resp, SubSeq(val, 1, n)) ELSE resp]

\* write_data() of the full variant: appends size*nmemb bytes, returns that
write_data(bytes, chunk) ==
    LET sz == chunk.size * chunk.nmemb
    IN  [ret |-> sz, bytes |-> bytes \o SubSeq(chunk.ptr, 1, sz)]

\* write_data() of the minimal variant: appends `size` bytes, returns size
Min_write_data(bytes, chunk) ==
    [ret |-> chunk.size, bytes |-> bytes \o SubSeq(chunk.ptr, 1, chunk.size)]

\* curl_easy_setopt(): the option store with one option set
Setopt(store, opt, val) == [store EXCEPT ![opt] = val]

\* PrepHeaders() without the "if (!h.empty())" test
PrepHeaders_all(headers, list, store) ==
    IF Len(headers) = 0 THEN [ret |-> 0, list |-> list, store |-> store]
    ELSE [ret   |-> CURLE_OK,
          list  |-> list \o headers,
          store |-> Setopt(store, "HTTPHEADER", "m_headers_list")]

\* PrepHeaders() building the list anew instead of appending to it
PrepHeaders_fresh(headers, list, store) ==
    IF Len(headers) = 0 THEN [ret |-> 0, list |-> list, store |-> store]
    ELSE LET l == NonEmpty(headers)
         IN  [ret   |-> CURLE_OK,
              list  |-> l,
              store |-> Setopt(store, "HTTPHEADER",
                               IF l = <<>> THEN NULL ELSE "m_headers_list")]

\* CurlState::PrepHeaders(): nothing when no line is staged; else every
\* non-empty staged line is appended to the list, which is handed to the engine
PrepHeaders(headers, list, store) ==
    IF Len(headers) = 0 THEN [ret |-> 0, list |-> list, store |-> store]
    ELSE LET l == list \o NonEmpty(headers)
         IN  [ret   |-> CURLE_OK,
              list  |-> l,
              store |-> Setopt(store, "HTTPHEADER",
                               IF l = <<>> THEN NULL ELSE "m_headers_list")]

\* dump(curl, ptr, size, nohex = true): lines of at most 120 characters, each
\* after a "%4.4lx: " offset, a new line after every CR LF of the data
HexDigit(d) == IF d < 10 THEN 48 + d ELSE 87 + d
Hex4(i) == <<HexDigit((i \div 4096) % 16), HexDigit((i \div 256) % 16),
             HexDigit((i \div 16) % 16), HexDigit(i % 16)>>
Printable(b) == IF b >= 32 /\ b < 128 THEN b ELSE 46

RECURSIVE dumpLine(_, _, _)
dumpLine(ptr, i, c) ==
    IF ~(c < 120 /\ i + c < Len(ptr)) THEN [txt |-> <<>>, next |-> i + 120]
    ELSE IF i + c + 1 < Len(ptr) /\ ptr[i + c + 1] = CR /\ ptr[i + c + 2] = LF
    THEN [txt |-> <<>>, next |-> i + c + 2]
    ELSE IF i + c + 2 < Len(ptr) /\ ptr[i + c + 2] = CR /\ ptr[i + c + 3] = LF
    THEN [txt |-> <<Printable(ptr[i + c + 1])>>, next |-> i + c + 3]
    ELSE LET r == dumpLine(ptr, i, c + 1)
         IN  [txt |-> <<Printable(ptr[i + c + 1])>> \o r.txt, next |-> r.next]

RECURSIVE dump(_, _)
dump(ptr, i) ==
    IF i >= Len(ptr) THEN <<>>
    ELSE LET l == dumpLine(ptr, i, 0)
         IN  Hex4(i) \o <<58, 32>> \o l.txt \o <<LF>> \o dump(ptr, l.next)

\* trace_curl(): one line per callback, and the dump above debug level 1
TracePrefix(type) ==
    CASE type = "HEADER_OUT"   -> S_TraceHeaderOut
      [] type = "DATA_OUT"     -> S_TraceDataOut
      [] type = "SSL_DATA_OUT" -> S_TraceSslOut
      [] type = "HEADER_IN"    -> S_TraceHeaderIn
      [] type = "DATA_IN"      -> S_TraceDataIn
      [] type = "SSL_DATA_IN"  -> S_TraceSslIn

trace_curl(debug, level, t) ==
    IF t.type = "TEXT" THEN debug \o S_TraceInfo \o t.data
    ELSE IF t.type = "END" THEN debug
    ELSE debug \o TracePrefix(t.type) \o Digits(Len(t.data)) \o S_BytesNl
               \o (IF level > 1 THEN dump(t.data, 0) ELSE <<>>)

---------------------------------------------------------------------------
(* State.                                                                  *)
VARIABLES
    \* the full variant's CurlState object and the caller's handle to it
    hstate,            \* "none" (not created), "live", "freed" (deleted)
    m_headers,         \* staged request header lines
    m_headers_list,    \* the engine's header list (curl_slist), <<>> = nullptr
    m_resp_headers,    \* captured response header lines
    m_data,            \* bytes of the m_data stream
    m_data_g,          \* get position of the m_data stream
    m_debug,           \* bytes of the m_debug stream
    m_debug_g,         \* get position of the m_debug stream
    m_debug_level,
    m_err,             \* the engine's error buffer
    eopts,             \* the engine session's option store
    last,              \* the last exported call: arguments, result, effects
    \* the minimal variant's CurlState object
    n_hstate, n_headers, n_headers_list, n_data, n_data_g, n_eopts, n_last,
    n_s_initialized, n_gcalls,
    \* what the engine handed to each variant's write callback, and what the
    \* CurlGetData calls returned, concatenated
    delivered, n_delivered, got, n_got,
    \* CurlInit's function statics and the threads inside CurlInit
    s_initialized,     \* static int s_initialized
    mtx,               \* static std::mutex mtx: 0 or the thread holding it
    ginit,             \* curl_global_init: "no", "running", "done"
    gcalls,            \* calls of curl_global_init so far
    pc,                \* where each thread is in CurlInit
    early              \* threads whose curl_easy_init ran before ginit = "done"

fvars == <<hstate, m_headers, m_headers_list, m_resp_headers, m_data, m_data_g,
           m_debug, m_debug_g, m_debug_level, m_err, eopts, last>>
nvars == <<n_hstate, n_headers, n_headers_list, n_data, n_data_g, n_eopts, n_last,
           n_s_initialized, n_gcalls>>
gvars == <<delivered, n_delivered, got, n_got>>
svars == <<s_initialized, ginit, gcalls>>
tvars == <<mtx, pc, early>>
vars  == <<fvars, nvars, gvars, svars, tvars>>

Threads == 1..NThreads

NoOpts == [o \in OptNames |-> Unset]

\* op, h: the function called and its handle argument; ret: its result;
\* engine: it called into libcurl; stale: the handle had been deleted;
\* ub: "fault"/"uaf" when it touched the deleted object; relList/relSession:
\* it released a header list / an engine session; outP: CurlExecute's output
\* pointers were non-null; code, len: the caller's output variables;
\* buf: the caller's buffer after the call; size, idx: buffer size and index;
\* method, post: CurlExecute's method and body arguments; http: the response
\* code the engine reports for the transfer; hdrs: the lines the engine
\* handed to read_header in this call; hrets: what read_header returned;
\* opts: CurlExecute's option flags argument
NoCall == [op |-> "none", h |-> NULL, ret |-> 0, engine |-> FALSE, stale |-> FALSE,
           ub |-> "none", relList |-> FALSE, relSession |-> FALSE, outP |-> FALSE,
           code |-> 0, len |-> 0, buf |-> <<>>, size |-> 0, idx |-> 0,
           method |-> "none", post |-> NULL, http |-> 0,
           hdrs |-> <<>>, hrets |-> <<>>, opts |-> {}]

Init ==
    /\ hstate = "none" /\ m_headers = <<>> /\ m_headers_list = <<>>
    /\ m_resp_headers = <<>> /\ m_data = <<>> /\ m_data_g = 0
    /\ m_debug = <<>> /\ m_debug_g = 0 /\ m_debug_level = 0 /\ m_err = <<>>
    /\ eopts = NoOpts /\ last = NoCall
    /\ n_hstate = "none" /\ n_headers = <<>> /\ n_headers_list = <<>>
    /\ n_data = <<>> /\ n_data_g = 0 /\ n_eopts = NoOpts /\ n_last = NoCall
    /\ n_s_initialized = 0 /\ n_gcalls = 0
    /\ delivered = <<>> /\ n_delivered = <<>> /\ got = <<>> /\ n_got = <<>>
    /\ s_initialized = 0 /\ mtx = 0 /\ ginit = "no" /\ gcalls = 0
    /\ pc = [t \in Threads |-> "start"] /\ early = {}

---------------------------------------------------------------------------
(* The engine's side of curl_easy_perform.                                 *)

\* the header callback is called once per response header line
RECURSIVE DeliverHeaders(_, _)
DeliverHeaders(resp, hdrs) ==
    IF hdrs = <<>> THEN resp
    ELSE DeliverHeaders(read_header(resp, Head(hdrs)).resp, Tail(hdrs))

\* what read_header returned to the engine, call by call
HeaderReturns(hdrs) == [i \in 1..Len(hdrs) |-> read_header(<<>>, hdrs[i]).ret]

\* the debug callback is called once per trace record
RECURSIVE DeliverTraces(_, _, _)
DeliverTraces(debug, level, traces) ==
    IF traces = <<>> THEN debug
    ELSE DeliverTraces(trace_curl(debug, level, Head(traces)), level, Tail(traces))

\* the write callback is called once per body chunk; the engine stops the
\* transfer at the first call that does not return size*nmemb
RECURSIVE DeliverChunks(_, _, _)
DeliverChunks(minimal, bytes, chunks) ==
    IF chunks = <<>> THEN [bytes |-> bytes, ok |-> TRUE, handed |-> <<>>]
    ELSE LET c == Head(chunks)
             r == IF minimal THEN Min_write_data(bytes, c) ELSE write_data(bytes, c)
         IN  IF r.ret # c.size * c.nmemb
             THEN [bytes |-> r.bytes, ok |-> FALSE, handed |-> c.ptr]
             ELSE LET rest == DeliverChunks(minimal, r.bytes, Tail(chunks))
                  IN  [bytes |-> rest.bytes, ok |-> rest.ok,
                       handed |-> c.ptr \o rest.handed]

\* a transfer with the no-body option set carries no body
BodyOf(store, chunks) == IF store["NOBODY"] = "1" THEN <<>> ELSE chunks

---------------------------------------------------------------------------
(* The full variant's exported functions.  Each takes the caller's handle  *)
(* argument h (NULL or PTR) and determines fvars' and svars'.              *)

Alive == last.ub # "fault"
Live(h) == h = PTR /\ hstate = "live"
Call(op, h) == [NoCall EXCEPT !.op = op, !.h = h]
fstate == <<hstate, m_headers, m_headers_list, m_resp_headers, m_data, m_data_g,
            m_debug, m_debug_g, m_debug_level, m_err, eopts>>

\* CurlInit(): the one-time global initialisation, then new CurlState()
CurlInit(garbage) ==
    /\ Alive /\ hstate # "live"
    /\ s_initialized' = 1
    /\ gcalls' = IF s_initialized = 0 THEN gcalls + 1 ELSE gcalls
    /\ ginit' = "done"
    /\ hstate' = "live"
    /\ m_headers' = <<>> /\ m_headers_list' = <<>> /\ m_resp_headers' = <<>>
    /\ m_data' = <<>> /\ m_data_g' = 0 /\ m_debug' = <<>> /\ m_debug_g' = 0
    /\ m_debug_level' = 0
    /\ m_err' = garbage
    /\ eopts' = Setopt(NoOpts, "ERRORBUFFER", "m_err")
    /\ last' = [Call("CurlInit", PTR) EXCEPT !.engine = TRUE]

\* CurlFinalize(): nothing for a null handle, else delete: ~CurlState()
\* releases the header list when there is one, and the engine session
CurlFinalize(h) ==
    /\ Alive /\ (h = NULL \/ Live(h))
    /\ IF h = NULL
       THEN /\ last' = Call("CurlFinalize", h)
            /\ UNCHANGED fstate
       ELSE /\ hstate' = "freed"
            /\ last' = [Call("CurlFinalize", h) EXCEPT
                            !.engine = TRUE,
                            !.relList = (m_headers_list # <<>>),
                            !.relSession = TRUE]
            \* the members are destroyed and the session is closed
            /\ m_headers' = <<>> /\ m_headers_list' = <<>> /\ m_resp_headers' = <<>>
            /\ m_data' = <<>> /\ m_data_g' = 0 /\ m_debug' = <<>> /\ m_debug_g' = 0
            /\ m_debug_level' = 0 /\ m_err' = <<>> /\ eopts' = NoOpts
    /\ UNCHANGED svars

\* Any exported function called with a handle CurlFinalize has deleted:
\* the object is gone, so the call faults or works on whatever the freed
\* memory holds; ~CurlState() then releases what m_headers_list and m_handle
\* happen to hold there.
CurlUseAfterFree(op, outcome, ret, rl, rs) ==
    /\ Alive /\ hstate = "freed"
    /\ (rl \/ rs) => op = "CurlFinalize" /\ outcome = "uaf"
    /\ last' = [Call(op, PTR) EXCEPT !.stale = TRUE, !.ub = outcome, !.ret = ret,
                    !.engine = (rl \/ rs), !.relList = rl, !.relSession = rs]
    /\ UNCHANGED <<fstate, svars>>

\* CurlLastError(): the error buffer's text, else curl_easy_strerror's;
\* snprintf returns the text's length and writes what fits
CurlLastError(h, err, max_size, msg) ==
    /\ Alive /\ (h = NULL \/ Live(h))
    /\ LET s == IF h # NULL /\ Len(m_err) # 0 THEN m_err ELSE msg
       IN  last' = [Call("CurlLastError", h) EXCEPT
                       !.ret = Len(s), !.size = max_size, !.code = err,
                       !.engine = (h = NULL \/ Len(m_err) = 0),
                       !.buf = IF max_size > 0
                               THEN BufAfter(max_size, Take(s, max_size - 1) \o <<0>>)
                               ELSE Filled(max_size)]
    /\ UNCHANGED <<fstate, svars>>

CurlSetURL(h, url) ==
    /\ Alive /\ (h = NULL \/ Live(h))
    /\ IF h = NULL
       THEN /\ last' = [Call("CurlSetURL", h) EXCEPT !.ret = ERR_NULL_HANDLE]
            /\ eopts' = eopts
       ELSE /\ eopts' = Setopt(eopts, "URL", url)
            /\ last' = [Call("CurlSetURL", h) EXCEPT !.ret = CURLE_OK, !.engine = TRUE]
    /\ UNCHANGED <<hstate, m_headers, m_headers_list, m_resp_headers, m_data, m_data_g,
                   m_debug, m_debug_g, m_debug_level, m_err, svars>>

CurlSetTimeout(h, timeout_secs) ==
    /\ Alive /\ (h = NULL \/ Live(h))
    /\ IF h = NULL
       THEN /\ last' = [Call("CurlSetTimeout", h) EXCEPT !.ret = CURLE_OK]
            /\ eopts' = eopts
       ELSE /\ eopts' = Setopt(eopts, "TIMEOUT", ToString(timeout_secs))
            /\ last' = [Call("CurlSetTimeout", h) EXCEPT !.ret = CURLE_OK, !.engine = TRUE]
    /\ UNCHANGED <<hstate, m_headers, m_headers_list, m_resp_headers, m_data, m_data_g,
                   m_debug, m_debug_g, m_debug_level, m_err, svars>>

\* CurlState::AddHeader / AddHeaders: emplace_back on m_headers
AddHeader(headers, header) == Append(headers, header)
AddHeaders(headers, hh) == headers \o hh

CurlAddHeader(h, header) ==
    /\ Alive /\ (h = NULL \/ Live(h))
    /\ m_headers' = IF h = NULL THEN m_headers ELSE AddHeader(m_headers, header)
    /\ Len(m_headers') <= MaxHeaders
    /\ last' = Call("CurlAddHeader", h)
    /\ UNCHANGED <<hstate, m_headers_list, m_resp_headers, m_data, m_data_g,
                   m_debug, m_debug_g, m_debug_level, m_err, eopts, svars>>

CurlAddHeaders(h, headers) ==
    /\ Alive /\ (h = NULL \/ Live(h))
    /\ m_headers' = IF h = NULL THEN m_headers
                    ELSE AddHeaders(m_headers, split(headers, LF))
    /\ Len(m_headers') <= MaxHeaders
    /\ last' = [Call("CurlAddHeaders", h) EXCEPT !.buf = headers]
    /\ UNCHANGED <<hstate, m_headers_list, m_resp_headers, m_data, m_data_g,
                   m_debug, m_debug_g, m_debug_level, m_err, eopts, svars>>

CurlTotRespHeaders(h) ==
    /\ Alive /\ (h = NULL \/ Live(h))
    /\ last' = [Call("CurlTotRespHeaders", h) EXCEPT
                    !.ret = IF h = NULL THEN 0 ELSE Len(m_resp_headers)]
    /\ UNCHANGED <<fstate, svars>>

\* CurlGetRespHeader(): -1 for a null handle or an index out of range; the
\* line is copied only when it is shorter than buflen; its length is returned
CurlGetRespHeader(h, idx, buflen) ==
    /\ Alive /\ (h = NULL \/ Live(h))
    /\ LET n == Len(m_resp_headers)
           c == [Call("CurlGetRespHeader", h) EXCEPT
                    !.idx = idx, !.size = buflen, !.buf = Filled(buflen)]
       IN  last' = IF h = NULL \/ idx < 0 \/ idx >= n
                   THEN [c EXCEPT !.ret = ERR_NULL_HANDLE]
                   ELSE LET hd == m_resp_headers[idx + 1]
                        IN  [c EXCEPT !.ret = Len(hd),
                                      !.buf = IF Len(hd) < buflen
                                              THEN StrncpyS(buflen, hd)
                                              ELSE Filled(buflen)]
    /\ UNCHANGED <<fstate, svars>>

CurlGetDataSize(h) ==
    /\ Alive /\ (h = NULL \/ Live(h))
    /\ last' = [Call("CurlGetDataSize", h) EXCEPT
                    !.ret = IF h = NULL THEN ERR_NULL_HANDLE ELSE DataSize(m_data)]
    /\ UNCHANGED <<fstate, svars>>

CurlGetData(h, size) ==
    /\ Alive /\ (h = NULL \/ Live(h))
    /\ LET r == WriteData(m_data, m_data_g, size)
           c == [Call("CurlGetData", h) EXCEPT !.size = size]
       IN  IF h = NULL
           THEN /\ last' = [c EXCEPT !.ret = ERR_NULL_HANDLE, !.buf = Filled(size)]
                /\ m_data_g' = m_data_g
           ELSE /\ last' = [c EXCEPT !.ret = r.ret, !.buf = BufAfter(size, r.out)]
                /\ m_data_g' = r.g
    /\ UNCHANGED <<hstate, m_headers, m_headers_list, m_resp_headers, m_data,
                   m_debug, m_debug_g, m_debug_level, m_err, eopts, svars>>

CurlDbgLevel(h, level) ==
    /\ Alive /\ (h = NULL \/ Live(h))
    /\ m_debug_level' = IF h = NULL THEN m_debug_level ELSE level
    /\ last' = Call("CurlDbgLevel", h)
    /\ UNCHANGED <<hstate, m_headers, m_headers_list, m_resp_headers, m_data, m_data_g,
                   m_debug, m_debug_g, m_err, eopts, svars>>

CurlDbgInfoSize(h) ==
    /\ Alive /\ (h = NULL \/ Live(h))
    /\ last' = [Call("CurlDbgInfoSize", h) EXCEPT
                    !.ret = IF h = NULL THEN 0 ELSE DataSize(m_debug)]
    /\ UNCHANGED <<fstate, svars>>

CurlDbgInfo(h, size) ==
    /\ Alive /\ (h = NULL \/ Live(h))
    /\ LET r == DebugInfo(m_debug, m_debug_g, size)
           c == [Call("CurlDbgInfo", h) EXCEPT !.size = size]
       IN  IF h = NULL
           THEN /\ last' = [c EXCEPT !.ret = 0, !.buf = Filled(size)]
                /\ m_debug_g' = m_debug_g
           ELSE /\ last' = [c EXCEPT !.ret = r.ret, !.buf = BufAfter(size, r.out)]
                /\ m_debug_g' = r.g
    /\ UNCHANGED <<hstate, m_headers, m_headers_list, m_resp_headers, m_data, m_data_g,
                   m_debug, m_debug_level, m_err, eopts, svars>>

\* CurlExecute(), lines 414-424: the option flags
ExecOpts(level, opts) == IF level # 0 THEN opts \cup {"OPT_DEBUG"} ELSE opts

\* the option flags with the no-body option following the flag alone
ExecFlags_flagonly(store, o, post_data) ==
    LET s1 == Setopt(store, "NOPROGRESS", "1")
        s2 == IF "OPT_FOLLOW_REDIRECTS" \in o
              THEN Setopt(s1, "FOLLOWLOCATION", "1") ELSE s1
        s3 == IF "CURL_OPT_NOBODY" \in o THEN Setopt(s2, "NOBODY", "1") ELSE s2
    IN  IF "OPT_DEBUG" \in o
        THEN Setopt(Setopt(s3, "DEBUGFUNCTION", "trace_curl"), "DEBUGDATA", "curl")
        ELSE s3

\* CurlExecute(), lines 414-424: the option flags
ExecFlags(store, o, post_data) ==
    LET s1 == Setopt(store, "NOPROGRESS", "1")
        s2 == IF "OPT_FOLLOW_REDIRECTS" \in o
              THEN Setopt(s1, "FOLLOWLOCATION", "1") ELSE s1
        s3 == IF "CURL_OPT_NOBODY" \in o \/ post_data = NULL
              THEN Setopt(s2, "NOBODY", "1") ELSE s2
    IN  IF "OPT_DEBUG" \in o
        THEN Setopt(Setopt(s3, "DEBUGFUNCTION", "trace_curl"), "DEBUGDATA", "curl")
        ELSE s3

PostFields(store, post_data) ==
    Setopt(Setopt(store, "POSTFIELDS", post_data), "POSTFIELDSIZE", "-1")

\* case CurlMethod::POST without the else branch
ExecMethodPost_noelse(store, headers, post_data) ==
    LET s1 == Setopt(store, "POST", "1")
        h1 == Append(headers, S_Expect)
    IN  [store |-> IF post_data # NULL THEN PostFields(s1, post_data) ELSE s1,
         headers |-> h1, ret |-> 0]

\* CurlExecute(), lines 429-438: case CurlMethod::POST
ExecMethodPost(store, headers, post_data) ==
    LET s1 == Setopt(store, "POST", "1")
        h1 == AddHeader(headers, S_Expect)
    IN  IF post_data # NULL
        THEN [store |-> PostFields(s1, post_data), headers |-> h1, ret |-> 0]
        ELSE [store |-> s1, headers |-> AddHeader(h1, S_ContentType), ret |-> 0]

\* CurlExecute(), lines 426-463: the method switch; ret is ERR_NO_POST_DATA
\* where the switch returns early
ExecMethod(store, headers, method, post_data) ==
    CASE method = "GET" ->
           [store |-> store, headers |-> headers, ret |-> 0]
      [] method = "POST" -> ExecMethodPost(store, headers, post_data)
      [] method = "POST_JSON" ->
           LET h1 == AddHeader(headers, S_ContentTypeJson)
           IN  IF post_data = NULL
               THEN [store |-> store, headers |-> h1, ret |-> ERR_NO_POST_DATA]
               ELSE [store |-> PostFields(store, post_data), headers |-> h1, ret |-> 0]
      [] method = "POST_FORM" ->
           IF post_data = NULL
           THEN [store |-> store, headers |-> headers, ret |-> ERR_NO_POST_DATA]
           ELSE [store |-> PostFields(store, post_data),
                 headers |-> AddHeader(headers, S_ContentTypeForm), ret |-> 0]
      [] method = "DEL" ->
           [store |-> Setopt(store, "CUSTOMREQUEST", "DELETE"),
            headers |-> headers, ret |-> 0]
      [] method = "PUT" ->
           [store |-> Setopt(store, "PUT", "1"), headers |-> headers, ret |-> 0]

\* CurlExecute(), lines 465-472: callbacks and timeouts
ExecCallbacks(store, o, timeout_secs) ==
    LET s1 == Setopt(store, "VERBOSE", IF "OPT_DEBUG" \in o THEN "OPT_DEBUG" ELSE "0")
        s2 == Setopt(Setopt(s1, "WRITEFUNCTION", "write_data"), "WRITEDATA", "handle")
        s3 == Setopt(Setopt(s2, "HEADERFUNCTION", "read_header"), "HEADERDATA", "handle")
        s4 == Setopt(s3, "CONNECTTIMEOUT", ToString(CONNECT_TIMEOUT))
    IN  Setopt(Setopt(s4, "TIMEOUT", ToString(timeout_secs)), "TCP_KEEPALIVE", "1")

\* CurlExecute(), lines 481-487: the output parameters; out holds the
\* caller's two variables, codeP/lenP say which pointers are non-null
ExecOutputs(out, codeP, lenP, res, http, size) ==
    IF res = CURLE_OK
    THEN [code |-> IF codeP THEN http ELSE out.code,
          len  |-> IF lenP THEN size + 1 ELSE out.len]
    ELSE [code |-> IF codeP THEN 0 ELSE out.code,
          len  |-> IF lenP THEN 0 ELSE out.len]

\* CurlExecute().  in: the caller's arguments and what its two output
\* variables held; eng: what the engine does during curl_easy_perform
\* (res, http, chunks, hdrs, traces, errbuf).  last.buf records the bytes
\* the engine handed to the write callback.
CurlExecute(h, in, eng) ==
    /\ Alive /\ (h = NULL \/ Live(h))
    /\ LET c == [Call("CurlExecute", h) EXCEPT !.code = in.code, !.len = in.len,
                                               !.outP = (in.codeP /\ in.lenP),
                                               !.method = in.method,
                                               !.post = in.post_data,
                                               !.opts = in.opts,
                                               !.http = eng.http]
           o == ExecOpts(m_debug_level, in.opts)
           a == ExecFlags(eopts, o, in.post_data)
           b == ExecMethod(a, m_headers, in.method, in.post_data)
           p == PrepHeaders(b.headers, m_headers_list, b.store)
           s == ExecCallbacks(p.store, o, in.timeout_secs)
           body == DeliverChunks(FALSE, m_data, BodyOf(s, eng.chunks))
           res  == IF body.ok THEN eng.res ELSE 23
           out  == ExecOutputs(in, in.codeP, in.lenP, res, eng.http, DataSize(body.bytes))
       IN  IF h = NULL
           THEN /\ last' = [c EXCEPT !.ret = ERR_NULL_HANDLE]
                /\ UNCHANGED <<m_headers, m_headers_list, m_resp_headers, m_data,
                               m_debug, m_err, eopts>>
           ELSE IF b.ret # 0
           THEN /\ last' = [c EXCEPT !.ret = b.ret, !.engine = TRUE]
                /\ eopts' = b.store
                /\ m_headers' = b.headers
                /\ UNCHANGED <<m_headers_list, m_resp_headers, m_data, m_debug, m_err>>
           ELSE /\ last' = [c EXCEPT !.ret = res, !.engine = TRUE,
                                     !.code = out.code, !.len = out.len,
                                     !.buf = body.handed,
                                     !.hdrs = eng.hdrs,
                                     !.hrets = HeaderReturns(eng.hdrs)]
                /\ eopts' = s
                /\ m_headers' = b.headers
                /\ m_headers_list' = p.list
                /\ m_data' = body.bytes
                /\ m_resp_headers' = DeliverHeaders(m_resp_headers, eng.hdrs)
                /\ m_debug' = IF "OPT_DEBUG" \in o
                              THEN DeliverTraces(m_debug, m_debug_level, eng.traces)
                              ELSE m_debug
                /\ m_err' = eng.errbuf
    /\ Len(m_headers') <= MaxHeaders /\ Len(m_headers_list') <= MaxList
    /\ Len(m_data') <= MaxData /\ Len(m_resp_headers') <= MaxResp
    /\ Len(m_debug') <= MaxDebug
    /\ UNCHANGED <<hstate, m_data_g, m_debug_g, m_debug_level, svars>>

---------------------------------------------------------------------------
(* Inputs.                                                                 *)
Handles == {NULL, PTR}
Bytes   == {97, 98}
Chunk(ptr) == [size |-> 1, nmemb |-> Len(ptr), ptr |-> ptr]
Chunks  == {Chunk(b) : b \in SeqsUpTo(Bytes, 2) \ {<<>>}}
ErrText == <<69, 114, 114>>
ExportedOps == {"CurlFinalize", "CurlLastError", "CurlSetURL", "CurlSetTimeout",
                "CurlAddHeader", "CurlAddHeaders", "CurlTotRespHeaders",
                "CurlGetRespHeader", "CurlExecute", "CurlGetDataSize", "CurlGetData",
                "CurlDbgLevel", "CurlDbgInfoSize", "CurlDbgInfo"}

ExecIn(method, opts, post_data, codeP, lenP) ==
    [method |-> method, opts |-> opts, post_data |-> post_data, timeout_secs |-> 10,
     codeP |-> codeP, lenP |-> lenP, code |-> 99, len |-> 99]
ExecEng(res, chunks, hdrs, traces) ==
    [res |-> res, http |-> IF res = CURLE_OK THEN 200 ELSE 0, chunks |-> chunks,
     hdrs |-> hdrs, traces |-> traces,
     errbuf |-> IF res = CURLE_OK THEN <<>> ELSE ErrText]

H_AB   == <<97, 58, 98, CR, LF>>       \* "a:b\r\n"
H_Blank == <<CR, LF>>                  \* the blank line ending the headers

---------------------------------------------------------------------------
(* Spec: one handle of the full variant through its whole life: every      *)
(* exported function, with a null handle, the live handle and the handle   *)
(* after CurlFinalize.  The transfers here carry no body, headers or trace *)
(* (SpecData has those), and the header lines are single (SpecHeaders).    *)
NoTransfer(res) == ExecEng(res, <<>>, <<>>, <<>>)
OnlyFull == UNCHANGED <<nvars, gvars, tvars>>

DoInit       == CurlInit(<<>>) /\ OnlyFull
DoFinalize   == \E h \in Handles : CurlFinalize(h) /\ OnlyFull
DoUseAfterFree ==
    \E op \in ExportedOps, outcome \in {"fault", "uaf"}, ret \in {-1, 0},
       rl \in BOOLEAN, rs \in BOOLEAN :
        CurlUseAfterFree(op, outcome, ret, rl, rs) /\ OnlyFull
DoSetURL     == \E h \in Handles : CurlSetURL(h, "http://h/") /\ OnlyFull
DoSetTimeout == \E h \in Handles : CurlSetTimeout(h, 5) /\ OnlyFull
DoAddHeader  == \E h \in Handles : CurlAddHeader(h, <<97>>) /\ OnlyFull
DoAddHeaders == \E h \in Handles : CurlAddHeaders(h, <<97>>) /\ OnlyFull
DoDbgLevel   == \E h \in Handles : CurlDbgLevel(h, 1) /\ OnlyFull
DoLastError  ==
    \E h \in Handles, err \in {CURLE_OK, 7} : CurlLastError(h, err, 2, ErrText) /\ OnlyFull
DoTotRespHeaders == \E h \in Handles : CurlTotRespHeaders(h) /\ OnlyFull
DoGetRespHeader  == \E h \in Handles : CurlGetRespHeader(h, 0, MaxBuf) /\ OnlyFull
DoGetDataSize    == \E h \in Handles : CurlGetDataSize(h) /\ OnlyFull
DoGetData        == \E h \in Handles : CurlGetData(h, 1) /\ OnlyFull
DoDbgInfoSize    == \E h \in Handles : CurlDbgInfoSize(h) /\ OnlyFull
DoDbgInfo        == \E h \in Handles : CurlDbgInfo(h, MaxBuf) /\ OnlyFull
DoExecute ==
    \E h \in Handles, method \in {"GET", "POST_FORM"}, ptrs \in BOOLEAN,
       res \in {CURLE_OK, 7} :
        CurlExecute(h, ExecIn(method, {}, NULL, ptrs, ptrs), NoTransfer(res)) /\ OnlyFull

Next ==
    \/ DoInit \/ DoFinalize \/ DoUseAfterFree
    \/ DoSetURL \/ DoSetTimeout \/ DoAddHeader \/ DoAddHeaders \/ DoDbgLevel
    \/ DoLastError \/ DoTotRespHeaders \/ DoGetRespHeader \/ DoGetDataSize
    \/ DoGetData \/ DoDbgInfoSize \/ DoDbgInfo \/ DoExecute

Spec == Init /\ [][Next]_vars

---------------------------------------------------------------------------
(* SpecSplit: CurlAddHeaders on every short newline-delimited string,      *)
(* given to a handle that has at most one line staged.                     *)
MaxStr == 3
HeaderTexts == SeqsUpTo({97, 98, LF}, MaxStr)

SpInit       == CurlInit(<<>>) /\ OnlyFull
SpFinalize   == CurlFinalize(PTR) /\ OnlyFull
SpAddHeader  == \E l \in {<<>>, <<97>>} : CurlAddHeader(PTR, l) /\ OnlyFull
SpAddHeaders ==
    \E t \in HeaderTexts : Len(m_headers) <= 1 /\ CurlAddHeaders(PTR, t) /\ OnlyFull

NextSplit == SpInit \/ SpFinalize \/ SpAddHeader \/ SpAddHeaders
SpecSplit == Init /\ [][NextSplit]_vars

---------------------------------------------------------------------------
(* SpecHeaders: staging header lines and executing with every method.      *)
HdInit       == CurlInit(<<>>) /\ OnlyFull
HdFinalize   == CurlFinalize(PTR) /\ OnlyFull
HdAddHeader  == \E l \in {<<97>>} : CurlAddHeader(PTR, l) /\ OnlyFull
HdAddHeaders == \E t \in {<<98, LF>>} : CurlAddHeaders(PTR, t) /\ OnlyFull
HdExecute ==
    \E method \in Methods, post_data \in {NULL, "body"} :
        CurlExecute(PTR, ExecIn(method, {}, post_data, TRUE, TRUE),
                    NoTransfer(CURLE_OK)) /\ OnlyFull

NextHeaders == HdInit \/ HdFinalize \/ HdAddHeader \/ HdAddHeaders \/ HdExecute
SpecHeaders == Init /\ [][NextHeaders]_vars

---------------------------------------------------------------------------
(* SpecData: transfers that deliver a body, response headers and trace     *)
(* records, and the three accessors that copy them out.                    *)
H_A     == <<97, COLON, CR, LF>>           \* "a:\r\n"
H_Status == <<72, 84, 84, 80, CR, LF>>     \* "HTTP\r\n": no colon
Responses ==
    { [chunks |-> <<>>, hdrs |-> <<>>],
      [chunks |-> <<Chunk(<<98>>)>>, hdrs |-> <<>>],
      [chunks |-> <<Chunk(<<97>>), Chunk(<<98>>)>>,
       hdrs |-> <<H_Status, H_AB, H_A, H_Blank>>] }
Traces == { <<>>, <<[type |-> "DATA_IN", data |-> <<97, CR, LF, 98>>],
                    [type |-> "END", data |-> <<>>]>> }
BufSizes == -1..MaxBuf

DtInit        == CurlInit(<<>>) /\ OnlyFull
DtFinalize    == CurlFinalize(PTR) /\ OnlyFull
DtDbgLevel    == CurlDbgLevel(PTR, 2) /\ OnlyFull
DtExecute ==
    \E r \in Responses, t \in Traces :
        CurlExecute(PTR, ExecIn("GET", {}, "body", TRUE, TRUE),
                    ExecEng(CURLE_OK, r.chunks, r.hdrs, t)) /\ OnlyFull
DtGetDataSize == CurlGetDataSize(PTR) /\ OnlyFull
DtGetData     == \E size \in BufSizes : CurlGetData(PTR, size) /\ OnlyFull
DtTotRespHeaders == CurlTotRespHeaders(PTR) /\ OnlyFull
DtGetRespHeader ==
    \E idx \in -1..MaxResp, buflen \in {0, MaxBuf - 1, MaxBuf} :
        CurlGetRespHeader(PTR, idx, buflen) /\ OnlyFull
DtDbgInfoSize == CurlDbgInfoSize(PTR) /\ OnlyFull
DtDbgInfo     == \E size \in {0, 1, MaxBuf, 2 * MaxDebug} : CurlDbgInfo(PTR, size) /\ OnlyFull

NextData ==
    \/ DtInit \/ DtFinalize \/ DtDbgLevel \/ DtExecute \/ DtGetDataSize \/ DtGetData
    \/ DtTotRespHeaders \/ DtGetRespHeader \/ DtDbgInfoSize \/ DtDbgInfo
SpecData == Init /\ [][NextData]_vars

---------------------------------------------------------------------------
(* SpecResp: transfers that deliver response header lines of every shape   *)
(* (with and without ':', with CR/LF at the end, in the middle, or not at  *)
(* all, and the empty line), and the two accessors for the captured lines. *)
H_NoEol  == <<97, COLON, 98>>                \* "a:b"
H_Colon  == <<COLON, LF>>                    \* ":\n"
H_Mid    == <<97, LF, COLON, CR>>            \* "a\n:\r"
HeaderLines == {H_AB, H_A, H_Status, H_Blank, H_NoEol, H_Colon, H_Mid, <<>>}
\* one transfer delivers no line, any single line, or one of three responses
HeaderSeqs ==
    {<<>>} \cup {<<l>> : l \in HeaderLines}
           \cup {<<H_Status, H_AB, H_Blank>>, <<H_Mid, H_NoEol>>,
                 <<H_Status, H_A, H_Blank, H_Status, H_AB, H_Blank>>}

RsInit     == CurlInit(<<>>) /\ OnlyFull
RsFinalize == CurlFinalize(PTR) /\ OnlyFull
RsExecute ==
    \E hdrs \in HeaderSeqs :
        CurlExecute(PTR, ExecIn("GET", {}, "body", TRUE, TRUE),
                    ExecEng(CURLE_OK, <<>>, hdrs, <<>>)) /\ OnlyFull
RsTotRespHeaders == \E h \in Handles : CurlTotRespHeaders(h) /\ OnlyFull
RsGetRespHeader ==
    \E h \in Handles, idx \in -1..(MaxResp + 1), buflen \in {0, MaxBuf + 1} :
        CurlGetRespHeader(h, idx, buflen) /\ OnlyFull

NextResp == RsInit \/ RsFinalize \/ RsExecute \/ RsTotRespHeaders \/ RsGetRespHeader
SpecResp == Init /\ [][NextResp]_vars

---------------------------------------------------------------------------
(* The minimal variant's exported functions (src/mt4curl/mt4curl.cpp).     *)
(* Each determines nvars'.                                                 *)
MinLive(h) == h = PTR /\ n_hstate = "live"
nstate == <<n_hstate, n_headers, n_headers_list, n_data, n_data_g, n_eopts>>

\* CurlState::DataSize(), PrepHeaders(), WriteData() of the minimal variant
MinDataSize(bytes) == Len(bytes)

MinPrepHeaders(headers, list, store) ==
    IF Len(headers) = 0 THEN [ret |-> 0, list |-> list, store |-> store]
    ELSE LET l == list \o NonEmpty(headers)
         IN  [ret   |-> CURLE_OK,
              list  |-> l,
              store |-> Setopt(store, "HTTPHEADER",
                               IF l = <<>> THEN NULL ELSE "m_headers_list")]

MinWriteData(bytes, g, sz) ==
    LET n == Len(bytes) - g
        m == Min2(n, sz)
        k == Max2(m, 0)
    IN  [ret |-> m, out |-> SubSeq(bytes, g + 1, g + k), g |-> g + k]

\* CurlInit(): as in the full variant, and two options set at once
MinCurlInit ==
    /\ n_hstate # "live"
    /\ n_s_initialized' = 1
    /\ n_gcalls' = IF n_s_initialized = 0 THEN n_gcalls + 1 ELSE n_gcalls
    /\ n_hstate' = "live"
    /\ n_headers' = <<>> /\ n_headers_list' = <<>> /\ n_data' = <<>> /\ n_data_g' = 0
    /\ n_eopts' = Setopt(Setopt(NoOpts, "NOPROGRESS", "1"), "FOLLOWLOCATION", "1")
    /\ n_last' = [Call("CurlInit", PTR) EXCEPT !.engine = TRUE]

MinCurlFinalize(h) ==
    /\ h = NULL \/ MinLive(h)
    /\ IF h = NULL
       THEN /\ n_last' = Call("CurlFinalize", h)
            /\ UNCHANGED nstate
       ELSE /\ n_hstate' = "freed"
            /\ n_last' = [Call("CurlFinalize", h) EXCEPT
                              !.engine = TRUE,
                              !.relList = (n_headers_list # <<>>),
                              !.relSession = TRUE]
            /\ n_headers' = <<>> /\ n_headers_list' = <<>>
            /\ n_data' = <<>> /\ n_data_g' = 0 /\ n_eopts' = NoOpts
    /\ UNCHANGED <<n_s_initialized, n_gcalls>>

MinCurlSetURL(h, url) ==
    /\ h = NULL \/ MinLive(h)
    /\ IF h = NULL
       THEN /\ n_last' = [Call("CurlSetURL", h) EXCEPT !.ret = MIN_FALSE]
            /\ n_eopts' = n_eopts
       ELSE /\ n_eopts' = Setopt(n_eopts, "URL", url)
            /\ n_last' = [Call("CurlSetURL", h) EXCEPT !.ret = CURLE_OK, !.engine = TRUE]
    /\ UNCHANGED <<n_hstate, n_headers, n_headers_list, n_data, n_data_g,
                   n_s_initialized, n_gcalls>>

MinCurlSetHeaders(h, headers) ==
    /\ h = NULL \/ MinLive(h)
    /\ n_headers' = IF h = NULL THEN n_headers ELSE n_headers \o split(headers, LF)
    /\ Len(n_headers') <= MaxHeaders
    /\ n_last' = [Call("CurlAddHeaders", h) EXCEPT !.buf = headers]
    /\ UNCHANGED <<n_hstate, n_headers_list, n_data, n_data_g, n_eopts,
                   n_s_initialized, n_gcalls>>

\* CurlExecute(handle, method, code): method and code are not used
MinCurlExecute(h, eng) ==
    /\ h = NULL \/ MinLive(h)
    /\ LET c == Call("CurlExecute", h)
           p == MinPrepHeaders(n_headers, n_headers_list, n_eopts)
           s1 == Setopt(p.store, "VERBOSE", "0")
           s == Setopt(Setopt(s1, "WRITEFUNCTION", "write_data"), "WRITEDATA", "handle")
           body == DeliverChunks(TRUE, n_data, BodyOf(s, eng.chunks))
           res == IF body.ok THEN eng.res ELSE 23
       IN  IF h = NULL
           THEN /\ n_last' = [c EXCEPT !.ret = MIN_FALSE]
                /\ UNCHANGED <<n_headers_list, n_data, n_eopts>>
           ELSE /\ n_last' = [c EXCEPT !.ret = res, !.engine = TRUE, !.buf = body.handed]
                /\ n_eopts' = s
                /\ n_headers_list' = p.list
                /\ n_data' = body.bytes
    /\ Len(n_headers_list') <= MaxList /\ Len(n_data') <= MaxData
    /\ UNCHANGED <<n_hstate, n_headers, n_data_g, n_s_initialized, n_gcalls>>

MinCurlGetDataSize(h) ==
    /\ h = NULL \/ MinLive(h)
    /\ n_last' = [Call("CurlGetDataSize", h) EXCEPT
                      !.ret = IF h = NULL THEN MIN_FALSE ELSE MinDataSize(n_data)]
    /\ UNCHANGED <<nstate, n_s_initialized, n_gcalls>>

MinCurlGetData(h, size) ==
    /\ h = NULL \/ MinLive(h)
    /\ LET r == MinWriteData(n_data, n_data_g, size)
           c == [Call("CurlGetData", h) EXCEPT !.size = size]
       IN  IF h = NULL
           THEN /\ n_last' = [c EXCEPT !.ret = MIN_FALSE, !.buf = Filled(size)]
                /\ n_data_g' = n_data_g
           ELSE /\ n_last' = [c EXCEPT !.ret = r.ret, !.buf = BufAfter(size, r.out)]
                /\ n_data_g' = r.g
    /\ UNCHANGED <<n_hstate, n_headers, n_headers_list, n_data, n_eopts,
                   n_s_initialized, n_gcalls>>

---------------------------------------------------------------------------
(* SpecPair: the two variants side by side, called with the same           *)
(* arguments and served the same engine responses.  delivered/n_delivered  *)
(* collect what the engine handed to each write callback, got/n_got what   *)
(* the CurlGetData calls returned.                                         *)
Returned(l) == IF l.h = PTR THEN Take(l.buf, l.ret) ELSE <<>>
Bodies == { <<>>, <<Chunk(<<97>>)>>, <<Chunk(<<97, 98>>)>>,
            <<Chunk(<<98>>), Chunk(<<97>>)>> }

PrInit ==
    /\ CurlInit(<<>>) /\ MinCurlInit
    /\ delivered' = <<>> /\ n_delivered' = <<>> /\ got' = <<>> /\ n_got' = <<>>
    /\ UNCHANGED tvars
PrFinalize ==
    \E h \in Handles : CurlFinalize(h) /\ MinCurlFinalize(h) /\ UNCHANGED <<gvars, tvars>>
PrSetURL ==
    \E h \in Handles :
        CurlSetURL(h, "http://h/") /\ MinCurlSetURL(h, "http://h/") /\ UNCHANGED <<gvars, tvars>>
PrAddHeaders ==
    \E h \in Handles, t \in {<<97, LF>>} :
        CurlAddHeaders(h, t) /\ MinCurlSetHeaders(h, t) /\ UNCHANGED <<gvars, tvars>>
PrExecute ==
    \* res 56: the connection broke while the body was being received
    \E h \in Handles, res \in {CURLE_OK, 56}, chunks \in Bodies :
        /\ CurlExecute(h, ExecIn("GET", {"OPT_FOLLOW_REDIRECTS"}, "body", TRUE, TRUE),
                       ExecEng(res, chunks, <<>>, <<>>))
        /\ MinCurlExecute(h, ExecEng(res, chunks, <<>>, <<>>))
        /\ delivered' = delivered \o last'.buf
        /\ n_delivered' = n_delivered \o n_last'.buf
        /\ UNCHANGED <<got, n_got, tvars>>
PrGetDataSize ==
    \E h \in Handles :
        CurlGetDataSize(h) /\ MinCurlGetDataSize(h) /\ UNCHANGED <<gvars, tvars>>
PrGetData ==
    \E h \in Handles, size \in 1..MaxBuf :
        /\ CurlGetData(h, size) /\ MinCurlGetData(h, size)
        /\ got' = got \o Returned(last')
        /\ n_got' = n_got \o Returned(n_last')
        /\ UNCHANGED <<delivered, n_delivered, tvars>>

NextPair ==
    \/ PrInit \/ PrFinalize \/ PrSetURL \/ PrAddHeaders \/ PrExecute
    \/ PrGetDataSize \/ PrGetData
SpecPair == Init /\ [][NextPair]_vars

---------------------------------------------------------------------------
(* SpecRepeat: both variants staging header lines and executing again and  *)
(* again on the same handle, with the calls in between that leave the      *)
(* header lines alone.  CurlAddHeader exists in the full variant only.     *)
RpInit ==
    /\ CurlInit(<<>>) /\ MinCurlInit
    /\ delivered' = <<>> /\ n_delivered' = <<>> /\ got' = <<>> /\ n_got' = <<>>
    /\ UNCHANGED tvars
RpFinalize ==
    CurlFinalize(PTR) /\ MinCurlFinalize(PTR) /\ UNCHANGED <<gvars, tvars>>
RpAddHeader ==
    \E l \in {<<>>, <<97>>} : CurlAddHeader(PTR, l) /\ OnlyFull
RpAddHeaders ==
    \E t \in {<<98>>} :
        CurlAddHeaders(PTR, t) /\ MinCurlSetHeaders(PTR, t) /\ UNCHANGED <<gvars, tvars>>
RpExecute ==
    \E h \in Handles, m \in {[method |-> "GET", post |-> "body"],
                             [method |-> "GET", post |-> NULL],
                             [method |-> "POST_FORM", post |-> NULL]} :
        /\ CurlExecute(h, ExecIn(m.method, {}, m.post, TRUE, TRUE), NoTransfer(CURLE_OK))
        /\ MinCurlExecute(h, NoTransfer(CURLE_OK))
        /\ UNCHANGED <<gvars, tvars>>
RpGetDataSize ==
    CurlGetDataSize(PTR) /\ MinCurlGetDataSize(PTR) /\ UNCHANGED <<gvars, tvars>>
RpTotRespHeaders == CurlTotRespHeaders(PTR) /\ OnlyFull

NextRepeat ==
    \/ RpInit \/ RpFinalize \/ RpAddHeader \/ RpAddHeaders \/ RpExecute
    \/ RpGetDataSize \/ RpTotRespHeaders
SpecRepeat == Init /\ [][NextRepeat]_vars

---------------------------------------------------------------------------
(* SpecNoBody: CurlExecute with every method, with and without a body and  *)
(* the no-body flag, and CurlSetURL as a call that sets another option in  *)
(* between.                                                                *)
NbInit       == CurlInit(<<>>) /\ OnlyFull
NbFinalize   == CurlFinalize(PTR) /\ OnlyFull
NbSetURL     == CurlSetURL(PTR, "http://h/") /\ OnlyFull
NbExecute ==
    \E method \in Methods, post_data \in {NULL, "body"},
       opts \in {{}, {"CURL_OPT_NOBODY"}} :
        CurlExecute(PTR, ExecIn(method, opts, post_data, TRUE, TRUE),
                    NoTransfer(CURLE_OK)) /\ OnlyFull

NextNoBody ==
    \/ NbInit \/ NbFinalize \/ NbSetURL \/ NbExecute
SpecNoBody == Init /\ [][NextNoBody]_vars

---------------------------------------------------------------------------
(* SpecInit: CurlInit() called by NThreads threads at once, one statement  *)
(* at a time (both variants share lines 213-226 / 94-107).  The first test *)
(* of s_initialized is made without the mutex, so it races with the store  *)
(* made under it: the read yields the current value or the value 0 that    *)
(* was there before the store.  The second test is made under the mutex.   *)
(* The CurlState each thread creates is not followed further here.         *)
At(t, l) == pc[t] = l
Goto(t, l) == pc' = [pc EXCEPT ![t] = l]
OnlyInit == UNCHANGED <<fvars, nvars, gvars>>

\* if (!s_initialized)                       -- unlocked
InitCheck(t) ==
    /\ At(t, "start")
    /\ \E seen \in {s_initialized, 0} :
          Goto(t, IF seen = 0 THEN "lock" ELSE "create")
    /\ UNCHANGED <<svars, mtx, early>>

\* std::lock_guard<std::mutex> lock(mtx);
InitLock(t) ==
    /\ At(t, "lock") /\ mtx = 0
    /\ mtx' = t /\ Goto(t, "recheck")
    /\ UNCHANGED <<svars, early>>

InitRecheck_none(t) ==
    /\ At(t, "recheck") /\ mtx = t
    /\ Goto(t, "global")
    /\ UNCHANGED <<svars, mtx, early>>

\* if (!s_initialized)                       -- under the mutex
InitRecheck(t) ==
    /\ At(t, "recheck") /\ mtx = t
    /\ Goto(t, IF s_initialized = 0 THEN "global" ELSE "unlock")
    /\ UNCHANGED <<svars, mtx, early>>

\* curl_global_init(CURL_GLOBAL_ALL): entry and return
InitGlobalCall(t) ==
    /\ At(t, "global")
    /\ gcalls' = gcalls + 1 /\ ginit' = "running"
    /\ Goto(t, "inglobal")
    /\ UNCHANGED <<s_initialized, mtx, early>>

InitGlobalReturn(t) ==
    /\ At(t, "inglobal")
    /\ ginit' = "done"
    /\ Goto(t, "setflag")
    /\ UNCHANGED <<s_initialized, gcalls, mtx, early>>

\* s_initialized = true;
InitSetFlag(t) ==
    /\ At(t, "setflag")
    /\ s_initialized' = 1
    /\ Goto(t, "unlock")
    /\ UNCHANGED <<ginit, gcalls, mtx, early>>

\* end of the lock_guard's scope
InitUnlock(t) ==
    /\ At(t, "unlock") /\ mtx = t
    /\ mtx' = 0 /\ Goto(t, "create")
    /\ UNCHANGED <<svars, early>>

\* new CurlState(): curl_easy_init()
InitCreate(t) ==
    /\ At(t, "create")
    /\ early' = IF ginit = "done" THEN early ELSE early \cup {t}
    /\ Goto(t, "done")
    /\ UNCHANGED <<svars, mtx>>

ThCheck        == \E t \in Threads : InitCheck(t) /\ OnlyInit
ThLock         == \E t \in Threads : InitLock(t) /\ OnlyInit
ThRecheck      == \E t \in Threads : InitRecheck(t) /\ OnlyInit
ThGlobalCall   == \E t \in Threads : InitGlobalCall(t) /\ OnlyInit
ThGlobalReturn == \E t \in Threads : InitGlobalReturn(t) /\ OnlyInit
ThSetFlag      == \E t \in Threads : InitSetFlag(t) /\ OnlyInit
ThUnlock       == \E t \in Threads : InitUnlock(t) /\ OnlyInit
ThCreate       == \E t \in Threads : InitCreate(t) /\ OnlyInit

NextInit ==
    \/ ThCheck \/ ThLock \/ ThRecheck \/ ThGlobalCall \/ ThGlobalReturn
    \/ ThSetFlag \/ ThUnlock \/ ThCreate
SpecInit == Init /\ [][NextInit]_vars

---------------------------------------------------------------------------
(* Claims.                                                                 *)

\* the entry points that return the engine's status code
StatusOps == {"CurlSetURL", "CurlSetTimeout", "CurlExecute"}

\* C1: every exported accessor or mutator called with a null handle returns
\* its failure sentinel, never the success value, and makes no call into
\* the native engine.  (Checked under Spec.)
C1_NullHandleFailsWithoutEngine ==
    (last.h = NULL /\ last.op \in ExportedOps \ {"CurlFinalize"}) =>
        /\ ~last.engine
        /\ last.op \in StatusOps => last.ret # CURLE_OK

\* C6: a CurlExecute with non-null output parameters that returns 0 leaves
\* the engine's response code in the status and the response byte count in
\* the size; one that returns non-zero leaves 0 in both and returns an
\* engine error code (a positive CURLcode).  (Checked under Spec.)
C6_ExecuteOutputs ==
    (last.op = "CurlExecute" /\ last.h = PTR /\ ~last.stale /\ last.outP) =>
        IF last.ret = CURLE_OK
        THEN last.code = last.http /\ last.len = DataSize(m_data)
        ELSE last.code = 0 /\ last.len = 0 /\ last.ret > 0

\* C8: a call on a handle that CurlFinalize has already deleted fails
\* safely: it returns the failure sentinel, does not touch the released
\* object and releases neither the engine session nor the header list
\* again.  (Checked under Spec.)
C8_FinalizedHandleFailsSafely ==
    (last.h = PTR /\ last.stale) =>
        /\ last.ub = "none"
        /\ ~last.relList /\ ~last.relSession
        /\ last.op \in StatusOps => last.ret # CURLE_OK

\* the strings CurlAddHeaders is given in SpecSplit that are N >= 1 non-empty
\* lines joined by single newlines, as the sequence of their lines
RECURSIVE Join(_)
Join(lines) ==
    IF Len(lines) = 1 THEN lines[1] ELSE lines[1] \o <<LF>> \o Join(Tail(lines))
Lines == SeqsUpTo({97, 98}, MaxStr) \ {<<>>}
LineSeqs == {ls \in SeqsUpTo(Lines, (MaxStr + 1) \div 2) :
                ls # <<>> /\ Len(Join(ls)) <= MaxStr}

\* C5: CurlAddHeaders on N non-empty lines joined by single newlines appends
\* exactly those N lines, in order, after the lines already staged; on the
\* empty string it appends one empty line.  (Checked under SpecSplit.)
C5_AddHeadersSplitsLines ==
    [][(last'.op = "CurlAddHeaders" /\ last'.h = PTR) =>
          /\ \A ls \in LineSeqs :
                Join(ls) = last'.buf => m_headers' = m_headers \o ls
          /\ last'.buf = <<>> => m_headers' = m_headers \o << <<>> >>]_vars

\* two lines were appended after a line staged before
C5_Witness ==
    /\ last.op = "CurlAddHeaders" /\ last.h = PTR
    /\ last.buf = <<97, LF, 98>>
    /\ m_headers = << <<97>>, <<97>>, <<98>> >>

\* the lines a CurlExecute step staged, and "Content-Type" lines
Staged == SubSeq(m_headers', Len(m_headers) + 1, Len(m_headers'))
IsContentType(line) == IsPrefix(<<67,111,110,116,101,110,116,45,84,121,112,101>>, line)
PostStep(withBody) ==
    /\ last'.op = "CurlExecute" /\ last'.h = PTR /\ last'.method = "POST"
    /\ (last'.post # NULL) = withBody

\* C7 as stated: POST with a null body sets the no-body and POST options and
\* stages "Expect:" but no Content-Type line; POST with a body passes it as
\* post fields and stages no Content-Type line.  (SpecHeaders.)
C7_PostStagesNoContentType ==
    [][/\ PostStep(FALSE) =>
            /\ eopts'["NOBODY"] = "1" /\ eopts'["POST"] = "1"
            /\ \E i \in 1..Len(Staged) : Staged[i] = S_Expect
            /\ \A i \in 1..Len(Staged) : ~IsContentType(Staged[i])
       /\ PostStep(TRUE) =>
            /\ eopts'["POSTFIELDS"] = last'.post
            /\ \A i \in 1..Len(Staged) : ~IsContentType(Staged[i])]_vars

\* C7 amended: POST with a null body sets the no-body and POST options and
\* stages "Expect:" and then the value-less line "Content-Type:"; POST with
\* a body sets the POST option, passes the body as post fields and stages
\* "Expect:" only.  (SpecHeaders.)
C7_PostStagesEmptyContentType ==
    [][/\ PostStep(FALSE) =>
            /\ eopts'["NOBODY"] = "1" /\ eopts'["POST"] = "1"
            /\ eopts'["POSTFIELDS"] = eopts["POSTFIELDS"]
            /\ Staged = <<S_Expect, S_ContentType>>
       /\ PostStep(TRUE) =>
            /\ eopts'["POST"] = "1"
            /\ eopts'["POSTFIELDS"] = last'.post /\ eopts'["POSTFIELDSIZE"] = "-1"
            /\ Staged = <<S_Expect>>]_vars

\* a POST without a body has run on a handle that had a line staged
C7_Witness ==
    /\ last.op = "CurlExecute" /\ last.h = PTR /\ last.method = "POST"
    /\ last.post = NULL /\ last.ret = CURLE_OK
    /\ m_headers = << <<97>>, S_Expect, S_ContentType >>
    /\ eopts["NOBODY"] = "1"

\* C9: CurlAddHeader and CurlAddHeaders change the staged lines and nothing
\* else of the handle or the engine; the engine's header list grows only in
\* a CurlExecute that reaches PrepHeaders, by the non-empty staged lines in
\* staged order.  (SpecHeaders.)
C9_HeadersReachEngineAtExecute ==
    [][/\ last'.op \in {"CurlAddHeader", "CurlAddHeaders"} =>
            /\ m_headers_list' = m_headers_list /\ eopts' = eopts
            /\ UNCHANGED <<hstate, m_resp_headers, m_data, m_data_g, m_debug,
                           m_debug_g, m_debug_level, m_err>>
       /\ (m_headers_list' # m_headers_list /\ hstate' = "live" /\ hstate = "live") =>
            last'.op = "CurlExecute"
       /\ (last'.op = "CurlExecute" /\ last'.h = PTR) =>
            m_headers_list' = IF last'.ret = ERR_NO_POST_DATA THEN m_headers_list
                              ELSE m_headers_list
                                     \o SelectSeq(m_headers', LAMBDA l : l # <<>>)]_vars

\* an execute has passed the staged lines on, skipping an empty one
C9_Witness ==
    /\ last.op = "CurlExecute" /\ last.h = PTR
    /\ m_headers = << <<98>>, <<>>, <<97>> >>
    /\ m_headers_list = << <<98>>, <<97>> >>
    /\ eopts["HTTPHEADER"] = "m_headers_list"

\* what an accessor step was asked, against the handle before the step
Unread      == Len(m_data) - m_data_g
DbgUnread   == Len(m_debug) - m_debug_g
GetDataStep == last'.op = "CurlGetData" /\ last'.h = PTR
DbgInfoStep == last'.op = "CurlDbgInfo" /\ last'.h = PTR
RespHeaderStep ==
    /\ last'.op = "CurlGetRespHeader" /\ last'.h = PTR
    /\ last'.idx >= 0 /\ last'.idx < Len(m_resp_headers)
AskedHeader == m_resp_headers[last'.idx + 1]

ReadsDrained(l) == l.op = "CurlGetData" /\ l.h = PTR /\ l.size > 0 /\ l.ret = 0
C3_ReadsReproduceDelivered ==
    /\ IsPrefix(got, delivered)
    /\ IsPrefix(n_got, n_delivered)
    /\ ReadsDrained(last) => got = delivered
    /\ ReadsDrained(n_last) => n_got = n_delivered

\* C10: run side by side with the same arguments and the same engine
\* responses, the minimal variant returns what the full variant returns,
\* holds the same accumulated body bytes, and has every option it ever sets
\* at the value the full variant has it.  (SpecPair.)
MinOpts == {"NOPROGRESS", "FOLLOWLOCATION", "URL", "HTTPHEADER", "VERBOSE",
            "WRITEFUNCTION", "WRITEDATA"}
C10_MinimalMatchesFull ==
    /\ n_last.op = last.op
    /\ n_last.ret = last.ret
    /\ n_data = m_data
    /\ \A o \in MinOpts : n_eopts[o] = eopts[o]

\* C2: however the threads' first calls of CurlInit interleave,
\* curl_global_init is never called a second time, no thread reaches
\* curl_easy_init before that call has returned, and every thread that is
\* past the guarded block finds exactly one completed call.  (SpecInit.)
PastGuard(t) == pc[t] \in {"create", "done"}
C2_GlobalInitOnce ==
    /\ gcalls <= 1
    /\ early = {}
    /\ \A t \in Threads : PastGuard(t) => gcalls = 1 /\ ginit = "done"
\* one thread has its handle, another one passed the unlocked test before
\* the flag was visible and now holds the mutex
C2_Witness ==
    \E t1, t2 \in Threads :
        /\ t1 # t2 /\ pc[t1] = "done" /\ pc[t2] = "recheck" /\ mtx = t2
        /\ gcalls = 1

\* the delivered lines that hold a ':', each cut after its last character
\* that is neither CR nor LF
HasColon(l) == \E i \in 1..Len(l) : l[i] = COLON
Stripped(l) ==
    LET keep == {i \in 1..Len(l) : l[i] \notin {CR, LF}}
    IN  SubSeq(l, 1, IF keep = {} THEN 0 ELSE CHOOSE i \in keep : \A j \in keep : j <= i)
Captured(hdrs) ==
    LET kept == SelectSeq(hdrs, HasColon)
    IN  [i \in 1..Len(kept) |-> Stripped(kept[i])]

\* C11: a CurlExecute appends to the captured response headers, in delivery
\* order, exactly the delivered lines that hold a ':', each without its
\* trailing CR/LF characters, and read_header returns to the engine the
\* length of every line it was given; CurlGetRespHeader returns -1 for an
\* index below 0 or not below the captured count, and the length of the
\* captured line otherwise.  (SpecResp.)
C11_CapturedRespHeaders ==
    [][/\ (last'.op = "CurlExecute" /\ last'.h = PTR) =>
            /\ m_resp_headers' = m_resp_headers \o Captured(last'.hdrs)
            /\ last'.hrets = [i \in 1..Len(last'.hdrs) |-> Len(last'.hdrs[i])]
       /\ (last'.op = "CurlGetRespHeader" /\ last'.h = PTR) =>
            /\ m_resp_headers' = m_resp_headers
            /\ last'.ret = IF last'.idx < 0 \/ last'.idx >= Len(m_resp_headers)
                           THEN -1
                           ELSE Len(m_resp_headers[last'.idx + 1])]_vars

\* "a\n:" and "a:b" were captured, and the second one's length was asked for
C11_Witness ==
    /\ last.op = "CurlGetRespHeader" /\ last.h = PTR
    /\ last.idx = 1 /\ last.ret = 3
    /\ m_resp_headers = << <<97, LF, COLON>>, <<97, COLON, 98>> >>

\* the non-empty lines of a staged sequence, and k copies of a sequence
KeptLines(ls) == SelectSeq(ls, LAMBDA l : l # <<>>)
RECURSIVE Repeat(_, _)
Repeat(ls, k) == IF k = 0 THEN <<>> ELSE ls \o Repeat(ls, k - 1)
Repeats == 0..MaxList
StaysLive == hstate = "live" /\ hstate' = "live"
ExecStep  == last'.op = "CurlExecute" /\ last'.h = PTR
\* no step of a handle that stays live removes a staged line or a list
\* entry, in either variant
NothingRemoved ==
    StaysLive =>
        /\ IsPrefix(m_headers, m_headers') /\ IsPrefix(m_headers_list, m_headers_list')
        /\ IsPrefix(n_headers, n_headers') /\ IsPrefix(n_headers_list, n_headers_list')
\* a GET execute on a list that holds k copies of the non-empty staged
\* lines leaves k+1 copies
GetAddsOneCopy ==
    (ExecStep /\ last'.method = "GET") =>
        /\ m_headers' = m_headers
        /\ \A k \in Repeats :
              m_headers_list = Repeat(KeptLines(m_headers), k) =>
                  m_headers_list' = Repeat(KeptLines(m_headers), k + 1)
        /\ \A k \in Repeats :
              n_headers_list = Repeat(KeptLines(n_headers), k) =>
                  n_headers_list' = Repeat(KeptLines(n_headers), k + 1)

\* C12 as stated: nothing but finalize removes a staged line or a list
\* entry; every CurlExecute on the handle appends all non-empty staged lines
\* to the engine's list again; k GET executes leave k copies of the n
\* non-empty staged lines.  (SpecRepeat.)
C12_EveryExecuteAppendsStaged ==
    [][/\ NothingRemoved
       /\ ExecStep => m_headers_list' = m_headers_list \o KeptLines(m_headers')
       /\ GetAddsOneCopy]_vars

\* C12 amended: as above, but the appending is done by the CurlExecute
\* calls that get as far as PrepHeaders; a call that returns -2 for a
\* missing body leaves the engine's list as it was.  The minimal variant's
\* CurlExecute always appends.  (SpecRepeat.)
C12_ExecuteAppendsUnlessNoBody ==
    [][/\ NothingRemoved
       /\ (ExecStep /\ last'.ret # ERR_NO_POST_DATA) =>
              m_headers_list' = m_headers_list \o KeptLines(m_headers')
       /\ (ExecStep /\ last'.ret = ERR_NO_POST_DATA) =>
              m_headers_list' = m_headers_list
       /\ ExecStep => n_headers_list' = n_headers_list \o KeptLines(n_headers)
       /\ GetAddsOneCopy]_vars

\* two GET executes on a handle staging "a", "" and "b": two copies of a, b
C12_Witness ==
    /\ last.op = "CurlExecute" /\ last.h = PTR /\ last.method = "GET"
    /\ m_headers = << <<97>>, <<>>, <<98>> >>
    /\ m_headers_list = << <<97>>, <<98>>, <<97>>, <<98>> >>
    /\ n_headers_list = << <<98>>, <<98>> >>

\* C13: a CurlExecute on the handle whose flags hold the no-body flag or
\* whose body argument is null sets the engine's no-body option, whatever
\* the method and also when it returns -2; and no step of a live handle
\* takes the option back, so every later CurlExecute runs with it set.
\* (SpecNoBody.)
NoBodySet(store) == store["NOBODY"] = "1"
C13_NoBodyOptionSticks ==
    [][/\ (ExecStep /\ ("CURL_OPT_NOBODY" \in last'.opts \/ last'.post = NULL)) =>
              NoBodySet(eopts')
       /\ (StaysLive /\ NoBodySet(eopts)) => NoBodySet(eopts')]_vars

\* a POST_FORM with a body and without the flag has run with the option
\* still set from an earlier call
C13_Witness ==
    /\ last.op = "CurlExecute" /\ last.h = PTR /\ last.ret = CURLE_OK
    /\ last.method = "POST_FORM" /\ last.post = "body" /\ last.opts = {}
    /\ NoBodySet(eopts)

=============================================================================
